---------------------------- MODULE Spec2Model ----------------------------
(***************************************************************************)
(* Jeju travel schedule system: the itinerary builder                      *)
(* (generate_schedule_for_weather and the selection policies it calls) and *)
(* the Travel_Schedule write-back (_insert_schedule_rows_into_db), both of *)
(* src/recommend_simple.py.                                                *)
(*                                                                         *)
(* Text values.  TLA+ strings are ASCII here, so a Korean text is written  *)
(* as the sequence of its characters, each Hangul syllable romanised:      *)
(* "3il" for the two characters 3 and il is written <<"3","il">>.          *)
(* Substring tests of the code (Python "in", SQL LIKE %kw%) are real       *)
(* substring tests on these character sequences.                           *)
(*                                                                         *)
(* Numbers.  Ratings are in tenths (45 is 4.5); coordinates are points of  *)
(* an integer grid and distances are whole kilometres.                     *)
(***************************************************************************)
EXTENDS Integers, Sequences, FiniteSets, Bags, TLC

NULL == 0 - 1               \* Python None / SQL NULL where a number is expected
NULL_TEXT == <<"NULL">>     \* Python None / SQL NULL where a text is expected
NO_ROW == {}                \* fetchone() without a row: a lookup gives the set of its rows

-----------------------------------------------------------------------------
(* Text helpers *)

\* Python "keyword in source" for two texts: keyword is a contiguous part of source.
IsSubstring(keyword, source) ==
    \E i \in 0..(Len(source) - Len(keyword)) :
        \A j \in 1..Len(keyword) : source[i + j] = keyword[j]

\* str.lower(): only Latin capitals change; Hangul has no case.
LowerChar(c) ==
    CASE c = "A" -> "a"
      [] c = "S" -> "s"
      [] c = "P" -> "p"
      [] OTHER -> c

Lower(text) == [i \in DOMAIN text |-> LowerChar(text[i])]

\* Python truthiness of an Optional[str]: None and "" are false.
Truthy(text) == text # NULL_TEXT /\ text # <<>>

\* _string_contains
StringContains(source, keyword) ==
    IF ~Truthy(source) \/ ~Truthy(keyword) THEN FALSE ELSE IsSubstring(keyword, source)

-----------------------------------------------------------------------------
(* Literals of the source *)

SP == " "

T_3il == <<"3", "il">>                      \* "3il": day 3
T_4il == <<"4", "il">>                      \* "4il": day 4

T_packed_pref ==                            \* "ppaegokhan iljeong seonho"
    <<"ppae", "gok", "han", SP, "il", "jeong", SP, "seon", "ho">>
T_relaxed_pref ==                           \* "yeoyuroun iljeong seonho"
    <<"yeo", "yu", "ro", "un", SP, "il", "jeong", SP, "seon", "ho">>
T_packed == <<"p", "a", "c", "k", "e", "d">>       \* "packed"
T_relaxed == <<"r", "e", "l", "a", "x", "e", "d">> \* "relaxed"

WijuEumsik == <<SP, "wi", "ju", SP, "eum", "sik">> \* " wiju eumsik"

T_hansik == <<"han", "sik">>
T_ilsik == <<"il", "sik">>
T_jungsik == <<"jung", "sik">>
T_haesanmul == <<"hae", "san", "mul">>
T_hoetjip == <<"hoet", "jip">>
T_saengseon == <<"saeng", "seon">>
T_kape == <<"ka", "pe">>
T_keopi == <<"keo", "pi">>

ILBAN == "ilban-eumsikjeom"     \* biz_type of a meal restaurant
HYUGE == "hyuge-eumsikjeom"     \* biz_type of a cafe

SILNAE == "silnae"              \* inout_door: indoor
SILWOE == "silwoe"              \* inout_door: outdoor
BOKHAP == "bokhap"              \* inout_door: mixed

MIN_RATING == 35
MAX_RATING == 50
NEIGHBOR_LIMIT == 50


-----------------------------------------------------------------------------
(* State *)

VARIABLES
    db,                     \* the relational store: one field per table
    req,                    \* the call's arguments (traveler_id, weather_mode, schedule_pref)
    pc,                     \* position of generate_schedule_for_weather
    schedule_pref,          \* local: the effective pacing preference
    nights,                 \* local: number of days the builder iterates
    pattern,                \* local: the per-day step pattern
    day,                    \* local: day loop variable
    order,                  \* local: step loop variable (1-based position in pattern)
    day_items,              \* local: steps of the current day
    full_schedule,          \* local: steps of the finished days; the return value
    used_spot_ids_global,   \* local: trip-wide used spot ids
    used_rest_ids_global,   \* local: trip-wide used restaurant ids (meal and cafe)
    Travel_Schedule,        \* the committed rows of table Travel_Schedule (a bag)
    save,                   \* the _insert_schedule_rows_into_db calls in flight
    call                    \* a call of one of the helper functions: its
                            \* arguments and the value it returned

\* no helper function has been called
NoCall == [fn |-> "none", args |-> <<>>, result |-> <<>>]

genVars == <<req, pc, schedule_pref, nights, pattern, day, order, day_items,
             full_schedule, used_spot_ids_global, used_rest_ids_global>>
saveVars == <<Travel_Schedule, save>>
vars == <<db, genVars, saveVars, call>>

-----------------------------------------------------------------------------
(* 4.1 haversine: great-circle distance.  On the integer grid the model    *)
(* uses, the distance between two points is taken along the grid; like the *)
(* source's formula it is symmetric, never negative and 0 between equal    *)
(* points.                                                                 *)

Abs(x) == IF x < 0 THEN -x ELSE x

haversine(lat1, lon1, lat2, lon2) == Abs(lat2 - lat1) + Abs(lon2 - lon1)

-----------------------------------------------------------------------------
(* 4.2 Candidate repository: the read queries *)

\* SELECT * FROM TRAVELER_PROFILE WHERE Traveler_ID = %s; fetchone()
get_traveler_profile(traveler_id) ==
    IF traveler_id \in DOMAIN db.TRAVELER_PROFILE
    THEN {db.TRAVELER_PROFILE[traveler_id]}
    ELSE NO_ROW

\* fetchone() of a lookup by primary key: {the row}, or NO_ROW
get_spot_by_id(spot_id) ==
    {s \in db.jeju_tour_spots_info : s.id = spot_id}

get_restaurant_by_id(rest_id) ==
    {r \in db.seogwipo_restaurants : r.id = rest_id}

\* the filter without the rainy case
inout_filter_any_weather(weather_mode) == {SILNAE, SILWOE, BOKHAP}

\* the inout_door values a weather mode admits
inout_filter(weather_mode) ==
    IF weather_mode = "rainy" THEN {SILNAE, BOKHAP} ELSE {SILNAE, SILWOE, BOKHAP}

\* WHERE rating BETWEEN MIN_RATING AND 5.0 AND inout_door IN (...)
SpotPassesFilter(s, weather_mode) ==
    /\ s.rating >= MIN_RATING
    /\ s.rating <= MAX_RATING
    /\ s.inout_door \in inout_filter(weather_mode)

get_all_spots_for_weather(weather_mode) ==
    {s \in db.jeju_tour_spots_info : SpotPassesFilter(s, weather_mode)}

\* ORDER BY ... distance_km ASC: MySQL sorts NULL first
DistBefore(a, b) == a # b /\ (a = NULL \/ (b # NULL /\ a < b))

\* ORDER BY s.rating DESC, s.review_count DESC, m.distance_km ASC
NeighborBefore(a, b) ==
    \/ a.spot.rating > b.spot.rating
    \/ a.spot.rating = b.spot.rating /\ a.spot.review_count > b.spot.review_count
    \/ /\ a.spot.rating = b.spot.rating
       /\ a.spot.review_count = b.spot.review_count
       /\ DistBefore(a.distance_km, b.distance_km)

\* LIMIT n after an ORDER BY: every result set the store may return
LimitRows(rows, limit) ==
    IF Cardinality(rows) <= limit
    THEN {rows}
    ELSE {T \in SUBSET rows :
            /\ Cardinality(T) = limit
            /\ \A a \in rows \ T : \A b \in T : ~NeighborBefore(a, b)}

\* the join without the rating and inout_door conditions
NeighborRows_unfiltered(base_spot_id, exclude_ids, weather_mode) ==
    {[spot |-> s, distance_km |-> m.distance_km] :
        <<m, s>> \in {x \in db.spot_spot_map \X db.jeju_tour_spots_info :
            /\ x[2].id = x[1].spot_id_2
            /\ x[1].spot_id_1 = base_spot_id
            /\ x[2].id \notin exclude_ids}}

\* the rows of the join of spot_spot_map with jeju_tour_spots_info
NeighborRows(base_spot_id, exclude_ids, weather_mode) ==
    {[spot |-> s, distance_km |-> m.distance_km] :
        <<m, s>> \in {x \in db.spot_spot_map \X db.jeju_tour_spots_info :
            /\ x[2].id = x[1].spot_id_2
            /\ x[1].spot_id_1 = base_spot_id
            /\ SpotPassesFilter(x[2], weather_mode)
            /\ x[2].id \notin exclude_ids}}

\* _get_neighbor_spots: the possible results (sets of spot rows)
get_neighbor_spots(base_spot_id, exclude_ids, weather_mode, limit) ==
    {{r.spot : r \in T} :
        T \in LimitRows(NeighborRows(base_spot_id, exclude_ids, weather_mode),
                        limit)}


\* a keyword_map without entries
food_keywords_none(preferred_food) == {}

\* keyword_map.get(preferred_food, []) of _get_restaurant_for_spot: the key is
\* the whole preference text
food_keywords(preferred_food) ==
    CASE preferred_food = T_hansik \o WijuEumsik -> {T_hansik}
      [] preferred_food = T_ilsik \o WijuEumsik -> {T_ilsik}
      [] preferred_food = T_jungsik \o WijuEumsik -> {T_jungsik}
      [] preferred_food = T_haesanmul \o WijuEumsik -> {T_haesanmul, T_hoetjip, T_saengseon}
      [] OTHER -> {}

cafe_keywords == {T_kape, T_keopi}

\* the join without the NOT IN (exclude_ids) clause
EateryRows_no_exclusion(spot_id, biz_type, exclude_ids, keywords) ==
    {[restaurant_id |-> r.id, restaurant_rating |-> r.rating,
      biz_type_detail |-> r.biz_type_detail, distance_km |-> m.distance_km] :
        <<m, r>> \in {x \in db.spot_restaurant_map \X db.seogwipo_restaurants :
            /\ x[2].id = x[1].restaurant_id
            /\ x[1].spot_id = spot_id
            /\ x[2].biz_type = biz_type
            /\ (keywords # {} =>
                  \E kw \in keywords : IsSubstring(kw, x[2].biz_type_detail))}}

\* the rows of the join of spot_restaurant_map with seogwipo_restaurants for
\* one spot and one biz_type, minus the excluded ids; with keywords, only the
\* rows whose biz_type_detail is LIKE %kw% for one of them
EateryRows(spot_id, biz_type, exclude_ids, keywords) ==
    {[restaurant_id |-> r.id, restaurant_rating |-> r.rating,
      biz_type_detail |-> r.biz_type_detail, distance_km |-> m.distance_km] :
        <<m, r>> \in {x \in db.spot_restaurant_map \X db.seogwipo_restaurants :
            /\ x[2].id = x[1].restaurant_id
            /\ x[1].spot_id = spot_id
            /\ x[2].biz_type = biz_type
            /\ x[2].id \notin exclude_ids
            /\ (keywords # {} =>
                  \E kw \in keywords : IsSubstring(kw, x[2].biz_type_detail))}}

\* ORDER BY r.rating DESC, m.distance_km ASC
EateryBefore(a, b) ==
    \/ a.restaurant_rating > b.restaurant_rating
    \/ /\ a.restaurant_rating = b.restaurant_rating
       /\ DistBefore(a.distance_km, b.distance_km)

\* ORDER BY ... LIMIT 1; fetchone(): the rows the store may return ({}: None)
TopRow(rows) == {r \in rows : \A a \in rows : ~EateryBefore(a, r)}

\* the keyword query, then the query without keywords when it gave no row
TwoTier(spot_id, biz_type, exclude_ids, keywords) ==
    LET first == TopRow(EateryRows(spot_id, biz_type, exclude_ids, keywords))
    IN  IF first # {}
        THEN first
        ELSE TopRow(EateryRows(spot_id, biz_type, exclude_ids, {}))

\* _get_restaurant_for_spot: the rows it may return; {} stands for None
get_restaurant_for_spot(spot_id, preferred_food, exclude_ids) ==
    TwoTier(spot_id, ILBAN, exclude_ids, food_keywords(preferred_food))

\* the cafe lookup with the biz_type of the meal lookup
get_cafe_for_spot_any_eatery(spot_id, exclude_ids) ==
    TwoTier(spot_id, ILBAN, exclude_ids, cafe_keywords)

\* _get_cafe_for_spot
get_cafe_for_spot(spot_id, exclude_ids) ==
    TwoTier(spot_id, HYUGE, exclude_ids, cafe_keywords)

-----------------------------------------------------------------------------
(* Distance resolution: each operator gives the set of values the call may *)
(* return (fetchone() of a query without ORDER BY takes any matching row)  *)

\* the resolution without the edge lookup
EdgeOrElse_fallback_only(edges, fallback) == {fallback}

\* what follows "if row and row[distance_km] is not None: return ..." for the
\* matching edge rows: the edge values, and the fallback when there is no row
\* or the row taken holds NULL
EdgeOrElse(edges, fallback) ==
    {e.distance_km : e \in {x \in edges : x.distance_km # NULL}}
        \cup (IF edges = {} \/ \E e \in edges : e.distance_km = NULL
              THEN {fallback} ELSE {})

calc_distance_spot_to_restaurant(spot_id, restaurant_id) ==
    LET edges == {m \in db.spot_restaurant_map :
                      m.spot_id = spot_id /\ m.restaurant_id = restaurant_id}
        spot == get_spot_by_id(spot_id)
        rest == get_restaurant_by_id(restaurant_id)
    IN  EdgeOrElse(edges,
                   IF spot = NO_ROW THEN NULL
                   ELSE IF rest = NO_ROW THEN NULL
                   ELSE LET s == CHOOSE x \in spot : TRUE
                            r == CHOOSE x \in rest : TRUE
                        IN  haversine(s.lat, s.lon, r.lat, r.lon))

\* symmetric by assumption
calc_distance_restaurant_to_spot(restaurant_id, spot_id) ==
    calc_distance_spot_to_restaurant(spot_id, restaurant_id)

\* 0.0 in the place of None when a spot has no row
calc_distance_spot_to_spot_zero_when_missing(spot_id_1, spot_id_2) ==
    IF spot_id_1 = spot_id_2 THEN {0}
    ELSE
    LET edges == {m \in db.spot_spot_map :
                      \/ m.spot_id_1 = spot_id_1 /\ m.spot_id_2 = spot_id_2
                      \/ m.spot_id_1 = spot_id_2 /\ m.spot_id_2 = spot_id_1}
        s1 == get_spot_by_id(spot_id_1)
        s2 == get_spot_by_id(spot_id_2)
    IN  EdgeOrElse(edges,
                   IF s1 = NO_ROW \/ s2 = NO_ROW THEN 0
                   ELSE LET a == CHOOSE x \in s1 : TRUE
                            b == CHOOSE x \in s2 : TRUE
                        IN  haversine(a.lat, a.lon, b.lat, b.lon))

calc_distance_spot_to_spot(spot_id_1, spot_id_2) ==
    IF spot_id_1 = spot_id_2 THEN {0}
    ELSE
    LET edges == {m \in db.spot_spot_map :
                      \/ m.spot_id_1 = spot_id_1 /\ m.spot_id_2 = spot_id_2
                      \/ m.spot_id_1 = spot_id_2 /\ m.spot_id_2 = spot_id_1}
        s1 == get_spot_by_id(spot_id_1)
        s2 == get_spot_by_id(spot_id_2)
    IN  EdgeOrElse(edges,
                   IF s1 = NO_ROW \/ s2 = NO_ROW THEN NULL
                   ELSE LET a == CHOOSE x \in s1 : TRUE
                            b == CHOOSE x \in s2 : TRUE
                        IN  haversine(a.lat, a.lon, b.lat, b.lon))

calc_distance_restaurant_to_restaurant(rest_id_1, rest_id_2) ==
    IF rest_id_1 = rest_id_2 THEN {0}
    ELSE
    LET r1 == get_restaurant_by_id(rest_id_1)
        r2 == get_restaurant_by_id(rest_id_2)
    IN  IF r1 = NO_ROW \/ r2 = NO_ROW THEN {NULL}
        ELSE LET a == CHOOSE x \in r1 : TRUE
                 b == CHOOSE x \in r2 : TRUE
             IN  {haversine(a.lat, a.lon, b.lat, b.lon)}

is_restaurant(t) == t \in {"restaurant", "cafe"}

\* the dispatch without the eatery-to-eatery case
calc_leg_distance_three_cases(prev_item, cur_item) ==
    IF prev_item.type = "spot" /\ is_restaurant(cur_item.type)
    THEN calc_distance_spot_to_restaurant(prev_item.spot_id, cur_item.restaurant_id)
    ELSE IF is_restaurant(prev_item.type) /\ cur_item.type = "spot"
    THEN calc_distance_restaurant_to_spot(prev_item.restaurant_id, cur_item.spot_id)
    ELSE IF prev_item.type = "spot" /\ cur_item.type = "spot"
    THEN calc_distance_spot_to_spot(prev_item.spot_id, cur_item.spot_id)
    ELSE {NULL}

\* _calc_leg_distance(prev_item, cur_item), prev_item not None
calc_leg_distance(prev_item, cur_item) ==
    IF prev_item.type = "spot" /\ is_restaurant(cur_item.type)
    THEN calc_distance_spot_to_restaurant(prev_item.spot_id, cur_item.restaurant_id)
    ELSE IF is_restaurant(prev_item.type) /\ cur_item.type = "spot"
    THEN calc_distance_restaurant_to_spot(prev_item.restaurant_id, cur_item.spot_id)
    ELSE IF prev_item.type = "spot" /\ cur_item.type = "spot"
    THEN calc_distance_spot_to_spot(prev_item.spot_id, cur_item.spot_id)
    ELSE IF is_restaurant(prev_item.type) /\ is_restaurant(cur_item.type)
    THEN calc_distance_restaurant_to_restaurant(prev_item.restaurant_id,
                                                cur_item.restaurant_id)
    ELSE {NULL}

\* list.sort(key=order): stable insertion of each item after the items whose
\* order is not greater
RECURSIVE SortByOrder(_)
SortByOrder(items) ==
    IF items = <<>> THEN <<>>
    ELSE LET rest == SortByOrder(SubSeq(items, 1, Len(items) - 1))
             x == items[Len(items)]
             k == Cardinality({i \in 1..Len(rest) : rest[i].order <= x.order})
         IN  SubSeq(rest, 1, k) \o <<x>> \o SubSeq(rest, k + 1, Len(rest))

\* the loop with prev left at the first item
RECURSIVE FillFirst_from_first(_, _)
FillFirst_from_first(sorted, n) ==
    IF n = 0 THEN {<<>>}
    ELSE {Append(filled, [sorted[n] EXCEPT !.distance_km = d]) :
            filled \in FillFirst_from_first(sorted, n - 1),
            d \in (IF n = 1 THEN {NULL}
                   ELSE calc_leg_distance(sorted[1], sorted[n]))}

\* the loop of _fill_distances_for_day over the first n sorted items: the
\* lists it may have produced
RECURSIVE FillFirst(_, _)
FillFirst(sorted, n) ==
    IF n = 0 THEN {<<>>}
    ELSE {Append(filled, [sorted[n] EXCEPT !.distance_km = d]) :
            filled \in FillFirst(sorted, n - 1),
            d \in (IF n = 1 THEN {NULL}
                   ELSE calc_leg_distance(sorted[n - 1], sorted[n]))}

\* _fill_distances_for_day: the lists it may leave in day_items
fill_distances_for_day(items) ==
    FillFirst(SortByOrder(items), Len(items))

-----------------------------------------------------------------------------
(* 4.3 Selection policy: the next-spot chooser *)

T_munhwa == <<"mun", "hwa">>
T_jayeon == <<"ja", "yeon">>
T_aektibiti == <<"aek", "ti", "bi", "ti">>
T_cheheom == <<"che", "heom">>
T_hyuyang == <<"hyu", "yang">>
T_hyusik == <<"hyu", "sik">>

\* the group a style preference text selects; first match wins
style_group(style_pref) ==
    IF IsSubstring(T_munhwa, style_pref) THEN "munhwa"
    ELSE IF IsSubstring(T_jayeon, style_pref) THEN "jayeon"
    ELSE IF IsSubstring(T_aektibiti, style_pref) \/ IsSubstring(T_cheheom, style_pref)
    THEN "aektibiti"
    ELSE IF IsSubstring(T_hyuyang, style_pref) \/ IsSubstring(T_hyusik, style_pref)
    THEN "hyuyang"
    ELSE "none"

style_keyword_map(group) ==
    CASE group = "munhwa" ->
            {T_munhwa, <<"yeok", "sa">>, <<"bak", "mul", "gwan">>, <<"jeon", "si">>,
             <<"yu", "jeok">>, <<"jeon", "tong">>, <<"ye", "sul">>}
      [] group = "jayeon" ->
            {T_jayeon, <<"san">>, <<"gye", "gok">>, <<"ba", "da">>, <<"hae", "byeon">>,
             <<"o", "reum">>, <<"sup">>, <<"gong", "won">>, <<"pok", "po">>}
      [] group = "aektibiti" ->
            {T_cheheom, <<"re", "jeo">>, T_aektibiti, <<"ka", "teu">>,
             <<"seo", "ping">>, <<"seung", "ma">>, <<"seu", "po", "cheu">>}
      [] group = "hyuyang" ->
            {T_hyuyang, <<"seu", "pa">>, <<"on", "cheon">>, <<"ri", "jo", "teu">>,
             <<"pen", "syeon">>}
      [] OTHER -> {}

match_style(style_pref, s) ==
    IF ~Truthy(style_pref) THEN FALSE
    ELSE LET group == style_group(style_pref)
             keywords == style_keyword_map(group)
             category_text == Lower(IF Truthy(s.category) THEN s.category ELSE <<>>)
         IN  /\ group # "none"
             /\ \E kw \in keywords : IsSubstring(Lower(kw), category_text)

\* usable without the used-id test
usable_keeps_used(spots, used_spot_ids) == spots

usable(spots, used_spot_ids) == {s \in spots : s.id \notin used_spot_ids}

\* pick_with_priority with the predicate [True] only
pick_with_priority_no_style(spots, style_pref) == spots

\* pick_with_priority with the predicates [match_style, True]: the candidate
\* list random.choice draws from; {} stands for the result None
pick_with_priority(spots, style_pref) ==
    LET styled == {s \in spots : match_style(style_pref, s)}
    IN  IF styled # {} THEN styled ELSE spots

\* the chooser without the second stage when a base spot is given
choose_next_spot_no_global(all_spots, used_spot_ids, style_pref, base_spot_id, neighbors) ==
    IF base_spot_id # NULL
    THEN pick_with_priority(usable(neighbors, used_spot_ids), style_pref)
    ELSE pick_with_priority(usable(all_spots, used_spot_ids), style_pref)

\* _choose_next_spot, given the rows _get_neighbor_spots returned: the spots
\* it may return; {} stands for None
choose_next_spot(all_spots, used_spot_ids, style_pref, base_spot_id, neighbors) ==
    LET all_usable == usable(all_spots, used_spot_ids)
        neigh_usable == usable(neighbors, used_spot_ids)
        c == pick_with_priority(neigh_usable, style_pref)
    IN  IF base_spot_id # NULL
        THEN IF c # {} THEN c ELSE pick_with_priority(all_usable, style_pref)
        ELSE pick_with_priority(all_usable, style_pref)

\* the rows _choose_next_spot may get from _get_neighbor_spots
neighbors_fetched(used_spot_ids, weather_mode, base_spot_id) ==
    IF base_spot_id # NULL
    THEN get_neighbor_spots(base_spot_id, used_spot_ids, weather_mode, NEIGHBOR_LIMIT)
    ELSE {{}}

-----------------------------------------------------------------------------
(* 4.4 Itinerary builder: generate_schedule_for_weather *)

PACKED_PATTERN == <<"spot", "restaurant", "cafe", "spot", "spot", "restaurant", "spot">>
RELAXED_PATTERN == <<"spot", "restaurant", "cafe", "spot", "restaurant">>

profile_row == get_traveler_profile(req.traveler_id)
profile == CHOOSE p \in profile_row : TRUE

\* duration_text = profile.get("Duration") or ""
duration_text == IF Truthy(profile.Duration) THEN profile.Duration ELSE <<>>

\* the two tests in the other order: "3il" is tested last and wins
parse_nights_3il_last(text) ==
    LET n1 == 1
        n2 == IF IsSubstring(T_4il, text) THEN 3 ELSE n1
        n3 == IF IsSubstring(T_3il, text) THEN 2 ELSE n2
    IN  IF n3 > 1 THEN n3 ELSE 1

\* nights = 1; if "3il" in text: 2; if "4il" in text: 3; max(1, nights)
parse_nights(text) ==
    LET n1 == 1
        n2 == IF IsSubstring(T_3il, text) THEN 2 ELSE n1
        n3 == IF IsSubstring(T_4il, text) THEN 3 ELSE n2
    IN  IF n3 > 1 THEN n3 ELSE 1

\* if schedule_pref_db: schedule_pref = schedule_pref_db
effective_pref(schedule_pref_db, schedule_pref_arg) ==
    IF Truthy(schedule_pref_db) THEN schedule_pref_db ELSE schedule_pref_arg

choose_pattern(pref) ==
    IF pref = T_packed_pref THEN PACKED_PATTERN ELSE RELAXED_PATTERN

all_spots == get_all_spots_for_weather(req.weather_mode)

\* for item in reversed(day_items): if item.type == "spot": its spot_id
last_spot_of(items) ==
    LET spotsAt == {i \in 1..Len(items) : items[i].type = "spot"}
    IN  IF spotsAt = {} THEN NULL
        ELSE items[CHOOSE i \in spotsAt : \A j \in spotsAt : j <= i].spot_id

\* the item of a loop that counts from 0 (enumerate without start=1)
SpotItem_zero_based(d, o, s) ==
    [day |-> d, order |-> o - 1, type |-> "spot", spot_id |-> s.id,
     restaurant_id |-> NULL, rating |-> s.rating, distance_km |-> NULL]

SpotItem(d, o, s) ==
    [day |-> d, order |-> o, type |-> "spot", spot_id |-> s.id,
     restaurant_id |-> NULL, rating |-> s.rating, distance_km |-> NULL]

EateryItem(d, o, t, row) ==
    [day |-> d, order |-> o, type |-> t, spot_id |-> NULL,
     restaurant_id |-> row.restaurant_id, rating |-> row.restaurant_rating,
     distance_km |-> NULL]

\* "if not profile: return []"
ReturnNoProfile ==
    /\ pc = "call"
    /\ profile_row = NO_ROW
    /\ pc' = "done"
    /\ UNCHANGED <<db, req, schedule_pref, nights, pattern, day, order, day_items,
                   full_schedule, used_spot_ids_global, used_rest_ids_global, saveVars, call>>

\* profile found, "if not all_spots: return []"
ReturnNoSpots ==
    /\ pc = "call"
    /\ profile_row # NO_ROW
    /\ all_spots = {}
    /\ schedule_pref' = effective_pref(profile.Schedule_Preference, schedule_pref)
    /\ nights' = parse_nights(duration_text)
    /\ pc' = "done"
    /\ UNCHANGED <<db, req, pattern, day, order, day_items,
                   full_schedule, used_spot_ids_global, used_rest_ids_global, saveVars, call>>

\* profile and candidates found: the locals are set and the day loop is entered
Setup ==
    /\ pc = "call"
    /\ profile_row # NO_ROW
    /\ all_spots # {}
    /\ schedule_pref' = effective_pref(profile.Schedule_Preference, schedule_pref)
    /\ nights' = parse_nights(duration_text)
    /\ pattern' = choose_pattern(schedule_pref')
    /\ full_schedule' = <<>>
    /\ used_spot_ids_global' = {}
    /\ used_rest_ids_global' = {}
    /\ day' = 1
    /\ order' = 1
    /\ day_items' = <<>>
    /\ pc' = "step"
    /\ UNCHANGED <<db, req, saveVars, call>>

AtStep(kind) ==
    /\ pc = "step"
    /\ order <= Len(pattern)
    /\ pattern[order] = kind

\* step kind spot, a spot is chosen
SpotChosen ==
    /\ AtStep("spot")
    /\ LET base_spot_id == last_spot_of(day_items)
       IN  \E neighbors \in neighbors_fetched(used_spot_ids_global, req.weather_mode,
                                              base_spot_id) :
             \E chosen_spot \in choose_next_spot(all_spots, used_spot_ids_global,
                                   profile.Preferred_Style, base_spot_id, neighbors) :
                /\ used_spot_ids_global' = used_spot_ids_global \cup {chosen_spot.id}
                /\ day_items' = Append(day_items, SpotItem(day, order, chosen_spot))
    /\ order' = order + 1
    /\ UNCHANGED <<db, req, pc, schedule_pref, nights, pattern, day,
                   full_schedule, used_rest_ids_global, saveVars, call>>

\* "continue" in the place of "break"
SpotExhausted_continues ==
    /\ AtStep("spot")
    /\ LET base_spot_id == last_spot_of(day_items)
       IN  \E neighbors \in neighbors_fetched(used_spot_ids_global, req.weather_mode,
                                              base_spot_id) :
             choose_next_spot(all_spots, used_spot_ids_global,
                              profile.Preferred_Style, base_spot_id, neighbors) = {}
    /\ order' = order + 1
    /\ UNCHANGED <<db, req, pc, schedule_pref, nights, pattern, day, day_items,
                   full_schedule, used_spot_ids_global, used_rest_ids_global, saveVars, call>>

\* "return full_schedule" in the place of "break"
SpotExhausted_returns ==
    /\ AtStep("spot")
    /\ LET base_spot_id == last_spot_of(day_items)
       IN  \E neighbors \in neighbors_fetched(used_spot_ids_global, req.weather_mode,
                                              base_spot_id) :
             choose_next_spot(all_spots, used_spot_ids_global,
                              profile.Preferred_Style, base_spot_id, neighbors) = {}
    /\ pc' = "done"
    /\ UNCHANGED <<db, req, schedule_pref, nights, pattern, day, order, day_items,
                   full_schedule, used_spot_ids_global, used_rest_ids_global, saveVars, call>>

\* step kind spot, the chooser returns None: break out of the step loop
SpotExhausted ==
    /\ AtStep("spot")
    /\ LET base_spot_id == last_spot_of(day_items)
       IN  \E neighbors \in neighbors_fetched(used_spot_ids_global, req.weather_mode,
                                              base_spot_id) :
             choose_next_spot(all_spots, used_spot_ids_global,
                              profile.Preferred_Style, base_spot_id, neighbors) = {}
    /\ pc' = "day_end"
    /\ UNCHANGED <<db, req, schedule_pref, nights, pattern, day, order, day_items,
                   full_schedule, used_spot_ids_global, used_rest_ids_global, saveVars, call>>

\* the rows the lookup of a meal or cafe step may return; {} when the step is
\* skipped (no spot yet this day, or no row)
eatery_rows(kind) ==
    LET last_spot_id == last_spot_of(day_items)
    IN  IF last_spot_id = NULL THEN {}
        ELSE IF kind = "restaurant"
        THEN get_restaurant_for_spot(last_spot_id, profile.Preferred_Food,
                                     used_rest_ids_global)
        ELSE get_cafe_for_spot(last_spot_id, used_rest_ids_global)

\* step kind restaurant or cafe, a row is found
EateryChosen(kind) ==
    /\ AtStep(kind)
    /\ \E row \in eatery_rows(kind) :
         /\ used_rest_ids_global' = used_rest_ids_global \cup {row.restaurant_id}
         /\ day_items' = Append(day_items, EateryItem(day, order, kind, row))
    /\ order' = order + 1
    /\ UNCHANGED <<db, req, pc, schedule_pref, nights, pattern, day,
                   full_schedule, used_spot_ids_global, saveVars, call>>

\* "break" in the place of "continue"
EaterySkipped_ends_day(kind) ==
    /\ AtStep(kind)
    /\ eatery_rows(kind) = {}
    /\ pc' = "day_end"
    /\ UNCHANGED <<db, req, schedule_pref, nights, pattern, day, order, day_items,
                   full_schedule, used_spot_ids_global, used_rest_ids_global, saveVars, call>>

\* step kind restaurant or cafe, "continue"
EaterySkipped(kind) ==
    /\ AtStep(kind)
    /\ eatery_rows(kind) = {}
    /\ order' = order + 1
    /\ UNCHANGED <<db, req, pc, schedule_pref, nights, pattern, day, day_items,
                   full_schedule, used_spot_ids_global, used_rest_ids_global, saveVars, call>>

MealChosen == EateryChosen("restaurant")
MealSkipped == EaterySkipped("restaurant")
CafeChosen == EateryChosen("cafe")
CafeSkipped == EaterySkipped("cafe")

\* after the step loop of a day: fill the distances, extend full_schedule,
\* and go to the next day or return
EndDay ==
    /\ \/ pc = "day_end"
       \/ pc = "step" /\ order > Len(pattern)
    /\ \E filled \in (IF day_items # <<>> THEN fill_distances_for_day(day_items)
                      ELSE {<<>>}) :
         /\ full_schedule' = full_schedule \o filled
         /\ IF day < nights
            THEN /\ day' = day + 1
                 /\ order' = 1
                 /\ day_items' = <<>>
                 /\ pc' = "step"
            ELSE /\ pc' = "done"
                 /\ day_items' = filled
                 /\ UNCHANGED <<day, order>>
    /\ UNCHANGED <<db, req, schedule_pref, nights, pattern,
                   used_spot_ids_global, used_rest_ids_global, saveVars, call>>

-----------------------------------------------------------------------------
(* The reference data and the calls the model is run on *)

MaxSpots == 6           \* spot ids are 1..MaxSpots
MaxRests == 4           \* restaurant ids are 1..MaxRests
MaxSmallTable == 2      \* size of the spot tables of the varied-store family
MaxDurLen == 4          \* length of the generated duration texts

SpotIds == 1..MaxSpots
RestIds == 1..MaxRests

\* the row of spot i: six kinds of spot, repeating
SpotRow(i) ==
    LET k == ((i - 1) % 6) + 1
    IN  [id |-> i,
         category |-> CASE k = 1 -> <<"bak", "mul", "gwan">>     \* museum
                        [] k = 2 -> <<"hae", "byeon">>           \* beach
                        [] k = 3 -> <<"o", "reum">>              \* volcanic cone
                        [] k = 4 -> <<"si", "jang">>             \* market
                        [] k = 5 -> NULL_TEXT
                        [] OTHER -> <<"pok", "po">>,             \* waterfall
         rating |-> CASE k = 1 -> 45 [] k = 2 -> 40 [] k = 3 -> 35
                      [] k = 4 -> 50 [] k = 5 -> 40 [] OTHER -> 30,
         inout_door |-> CASE k = 1 -> SILNAE [] k = 2 -> SILWOE [] k = 3 -> BOKHAP
                          [] k = 4 -> SILWOE [] k = 5 -> SILNAE [] OTHER -> SILNAE,
         lat |-> i,
         lon |-> (i * i) % 4,
         review_count |-> 10 * (i % 3)]

\* the row of restaurant i: four kinds, repeating
RestRow(i) ==
    LET k == ((i - 1) % 4) + 1
    IN  [id |-> i,
         biz_type |-> IF k % 2 = 1 THEN ILBAN ELSE HYUGE,
         biz_type_detail |-> CASE k = 1 -> T_hoetjip                  \* raw-fish house
                               [] k = 2 -> T_kape                     \* cafe
                               [] k = 3 -> T_hansik                   \* Korean food
                               [] OTHER -> <<"je", "gwa", "jeom">>,   \* bakery
         rating |-> CASE k = 1 -> 40 [] k = 2 -> 40 [] k = 3 -> 45 [] OTHER -> 45,
         lat |-> i + 1,
         lon |-> i % 3]

\* spot_spot_map layouts: none; a ring with a self-loop, a NULL distance and an
\* edge to a missing spot; every ordered pair
SpotMaps ==
    { {},
      {[spot_id_1 |-> i, spot_id_2 |-> (i % MaxSpots) + 1,
        distance_km |-> IF i = 2 THEN NULL ELSE i] : i \in SpotIds}
        \cup {[spot_id_1 |-> 1, spot_id_2 |-> 1, distance_km |-> 0],
              [spot_id_1 |-> 1, spot_id_2 |-> MaxSpots + 1, distance_km |-> 7]},
      {[spot_id_1 |-> i, spot_id_2 |-> j, distance_km |-> i + j] :
          <<i, j>> \in {x \in SpotIds \X SpotIds : x[1] # x[2]}} }

\* spot_restaurant_map layouts: none; spot i to restaurants i and i+1 (some
\* missing, one NULL distance); every spot to every restaurant
RestMaps ==
    { {},
      {[spot_id |-> i, restaurant_id |-> i + d,
        distance_km |-> IF i = 1 /\ d = 0 THEN NULL ELSE i + d] :
          <<i, d>> \in SpotIds \X {0, 1}},
      {[spot_id |-> i, restaurant_id |-> j, distance_km |-> (i + j) % 3] :
          <<i, j>> \in SpotIds \X RestIds} }

RingMap == CHOOSE m \in SpotMaps : m # {} /\ \E e \in m : e.spot_id_1 = e.spot_id_2
AllRestMap == CHOOSE m \in RestMaps : \A i \in SpotIds : \A j \in RestIds :
                \E e \in m : e.spot_id = i /\ e.restaurant_id = j

T_2bak3il == <<"2", "bak", SP, "3", "il">>
T_3bak4il == <<"3", "bak", SP, "4", "il">>
T_jayeon_pref == T_jayeon \o <<SP, "seon", "ho">>          \* "jayeon seonho"
T_haesanmul_pref == T_haesanmul \o WijuEumsik              \* "haesanmul wiju eumsik"

\* all texts of length n over an alphabet
RECURSIVE TextsOfLen(_, _)
TextsOfLen(alphabet, n) ==
    IF n = 0 THEN {<<>>}
    ELSE {Append(t, c) : t \in TextsOfLen(alphabet, n - 1), c \in alphabet}

DurationTexts ==
    {NULL_TEXT, T_2bak3il, T_3bak4il}
        \cup UNION {TextsOfLen({"3", "4", "il"}, n) : n \in 0..MaxDurLen}

Profile(dur, pace, style, food) ==
    [Duration |-> dur, Schedule_Preference |-> pace,
     Preferred_Style |-> style, Preferred_Food |-> food]

Store(profiles, spots, spotMap, restMap) ==
    [TRAVELER_PROFILE |-> profiles,
     jeju_tour_spots_info |-> {SpotRow(i) : i \in spots},
     seogwipo_restaurants |-> {RestRow(i) : i \in RestIds},
     spot_spot_map |-> spotMap,
     spot_restaurant_map |-> restMap]

\* traveler 1 has a profile, traveler 2 has none
Profiles(p) == (1 :> p)

Request(t, w, sp) == [traveler_id |-> t, weather_mode |-> w, schedule_pref |-> sp]

WeatherModes == {"rainy", "not_rainy"}

\* family 1: the store varies (small spot tables, every map layout)
InitStores ==
    /\ \E spots \in {S \in SUBSET SpotIds : Cardinality(S) <= MaxSmallTable},
          spotMap \in SpotMaps, restMap \in RestMaps,
          pace \in {NULL_TEXT, T_packed_pref},
          style \in {NULL_TEXT, T_jayeon_pref},
          food \in {NULL_TEXT, T_haesanmul_pref} :
         db = Store(Profiles(Profile(T_2bak3il, pace, style, food)),
                    spots, spotMap, restMap)
    /\ \E t \in {1, 2}, w \in WeatherModes : req = Request(t, w, NULL_TEXT)

\* family 2: the duration text varies
InitDurations ==
    /\ \E dur \in DurationTexts :
         db = Store(Profiles(Profile(dur, NULL_TEXT, T_jayeon_pref, T_haesanmul_pref)),
                    SpotIds, RingMap, AllRestMap)
    /\ req = Request(1, "not_rainy", NULL_TEXT)

\* family 3: the pacing preference of the profile and of the request vary
InitPacing ==
    /\ \E pace \in {NULL_TEXT, <<>>, T_packed_pref, T_relaxed_pref} :
         db = Store(Profiles(Profile(T_2bak3il, pace, T_jayeon_pref, T_haesanmul_pref)),
                    SpotIds, RingMap, AllRestMap)
    /\ \E w \in WeatherModes,
          sp \in {NULL_TEXT, T_packed, T_relaxed, T_packed_pref, T_relaxed_pref} :
         req = Request(1, w, sp)

Init ==
    /\ InitStores \/ InitDurations \/ InitPacing
    /\ pc = "call"
    /\ schedule_pref = req.schedule_pref
    /\ nights = 0            \* the locals are not assigned yet
    /\ pattern = <<>>
    /\ day = 0
    /\ order = 0
    /\ day_items = <<>>
    /\ full_schedule = <<>>
    /\ used_spot_ids_global = {}
    /\ used_rest_ids_global = {}
    /\ Travel_Schedule = EmptyBag
    /\ save = <<>>
    /\ call = NoCall

Next ==
    \/ ReturnNoProfile
    \/ ReturnNoSpots
    \/ Setup
    \/ SpotChosen
    \/ SpotExhausted
    \/ MealChosen
    \/ MealSkipped
    \/ CafeChosen
    \/ CafeSkipped
    \/ EndDay

Spec == Init /\ [][Next]_vars

-----------------------------------------------------------------------------
(* 4.5 Persistence: _insert_schedule_rows_into_db                          *)
(*                                                                         *)
(* Each call opens its own connection.  db.get_connection does not turn on *)
(* autocommit, so the DELETE and the INSERTs of a call form one            *)
(* transaction, applied to the committed rows by conn.commit() and         *)
(* discarded when the connection is closed without a commit.  Other        *)
(* connections read the committed rows, Travel_Schedule.  A DELETE locks   *)
(* the rows it removes until its transaction ends.                         *)
(* save[c] is the state of connection c's call.                            *)

MaxSteps == 2           \* length of the itineraries saved
MaxCalls == 3           \* calls made one after the other on one connection

\* a connection opened with autocommit=True
autocommit_on == TRUE

\* pymysql.connect(...) of db.get_connection: autocommit is left off
autocommit == FALSE

\* date.today(), as a day number
base_date == 0

\* the row one INSERT stores for a step
ScheduleRow(traveler_id, weather_mode, item) ==
    [Traveler_id |-> traveler_id,
     Place_id |-> IF item.type = "spot" THEN item.spot_id ELSE NULL,
     Restaurant_id |-> IF item.type \in {"restaurant", "cafe"}
                       THEN item.restaurant_id ELSE NULL,
     visit_order |-> item.order,
     visit_date |-> base_date + (item.day - 1),
     weather |-> weather_mode,
     \* round(float(distance_km), 2) leaves a whole number of km as it is
     distance |-> IF item.distance_km = NULL THEN 0 ELSE item.distance_km]

\* WHERE Traveler_id = %s, without the weather
DeleteWhere_traveler_only(row, traveler_id, weather_mode) ==
    row.Traveler_id = traveler_id

\* the DELETE that matches nothing
DeleteWhere_never(row, traveler_id, weather_mode) == FALSE

\* WHERE Traveler_id = %s AND weather = %s
DeleteWhere(row, traveler_id, weather_mode) ==
    row.Traveler_id = traveler_id /\ row.weather = weather_mode

\* the rows of a bag that satisfy the WHERE clause, with their copies
MatchingRows(rows, traveler_id, weather_mode) ==
    LET keep == {r \in DOMAIN rows : DeleteWhere(r, traveler_id, weather_mode)}
    IN  [r \in keep |-> rows[r]]

\* what a reader on another connection sees for one (traveler, weather) pair
PairRows(traveler_id, weather_mode) ==
    LET keep == {r \in DOMAIN Travel_Schedule :
                    r.Traveler_id = traveler_id /\ r.weather = weather_mode}
    IN  [r \in keep |-> Travel_Schedule[r]]

\* one row per step of an itinerary, as a bag
RECURSIVE RowsOf(_, _, _)
RowsOf(traveler_id, weather_mode, schedule) ==
    IF schedule = <<>> THEN EmptyBag
    ELSE RowsOf(traveler_id, weather_mode, Tail(schedule))
            (+) SetToBag({ScheduleRow(traveler_id, weather_mode, Head(schedule))})

\* bag difference that drops the rows whose count reaches 0
Minus(a, b) == a (-) b

NoPrev == [valid |-> FALSE, traveler_id |-> 0, weather_mode |-> "", schedule |-> <<>>,
           count |-> 0]

IdleCall(left) ==
    [pc |-> "idle", traveler_id |-> 0, weather_mode |-> "", schedule |-> <<>>,
     before |-> EmptyBag, deleted |-> EmptyBag, inserted |-> EmptyBag,
     i |-> 0, inserted_count |-> 0, ret |-> NULL, left |-> left, prev |-> NoPrev]

\* the itineraries handed to the calls: the first steps of two fixed itineraries
StepA(k) ==
    IF k % 2 = 1
    THEN [day |-> 1 + ((k - 1) \div 2), order |-> 1, type |-> "spot", spot_id |-> k,
          restaurant_id |-> NULL, rating |-> 40, distance_km |-> NULL]
    ELSE [day |-> 1 + ((k - 1) \div 2), order |-> 2, type |-> "restaurant",
          spot_id |-> NULL, restaurant_id |-> k, rating |-> 45, distance_km |-> 3]

StepB(k) ==
    IF k % 2 = 1
    THEN [day |-> 1 + ((k - 1) \div 2), order |-> 1, type |-> "spot", spot_id |-> k + 1,
          restaurant_id |-> NULL, rating |-> 45, distance_km |-> NULL]
    ELSE [day |-> 1 + ((k - 1) \div 2), order |-> 3, type |-> "cafe",
          spot_id |-> NULL, restaurant_id |-> k + 1, rating |-> 40, distance_km |-> 1]

Schedules ==
    {[k \in 1..n |-> StepA(k)] : n \in 0..MaxSteps}
        \cup {[k \in 1..n |-> StepB(k)] : n \in 0..MaxSteps}

SaveTravelers == {1, 2}

\* the summary of a call that returned, kept for the call that follows it
Summary(c) ==
    IF save[c].pc = "returned"
    THEN [valid |-> TRUE, traveler_id |-> save[c].traveler_id,
          weather_mode |-> save[c].weather_mode, schedule |-> save[c].schedule,
          count |-> BagCardinality(PairRows(save[c].traveler_id, save[c].weather_mode))]
    ELSE NoPrev

\* _insert_schedule_rows_into_db(traveler_id, weather_mode, schedule) is called
Call(c) ==
    /\ save[c].pc \in {"idle", "returned", "failed"}
    /\ save[c].left > 0
    /\ \E t \in SaveTravelers, w \in WeatherModes, sch \in Schedules :
         save' = [save EXCEPT ![c] =
                    [pc |-> "start", traveler_id |-> t, weather_mode |-> w,
                     schedule |-> sch, before |-> PairRows(t, w),
                     deleted |-> EmptyBag, inserted |-> EmptyBag,
                     i |-> 0, inserted_count |-> 0, ret |-> NULL,
                     left |-> save[c].left - 1, prev |-> Summary(c)]]
    /\ UNCHANGED <<db, genVars, Travel_Schedule, call>>

\* "if not schedule: return 0"
ReturnZero(c) ==
    /\ save[c].pc = "start"
    /\ save[c].schedule = <<>>
    /\ save' = [save EXCEPT ![c].pc = "returned", ![c].ret = 0]
    /\ UNCHANGED <<db, genVars, Travel_Schedule, call>>

\* the rows another connection's open transaction has deleted are locked
LockedByOthers(c) ==
    \E o \in DOMAIN save \ {c} :
        /\ save[o].pc = "insert"
        /\ MatchingRows(save[o].deleted, save[c].traveler_id, save[c].weather_mode)
              # EmptyBag

\* get_connection(); cur.execute(delete_sql, (traveler_id, weather_mode))
Delete(c) ==
    /\ save[c].pc = "start"
    /\ save[c].schedule # <<>>
    /\ ~LockedByOthers(c)
    /\ LET gone == MatchingRows(Travel_Schedule, save[c].traveler_id,
                                save[c].weather_mode)
       IN  /\ save' = [save EXCEPT ![c].pc = "insert", ![c].deleted = gone,
                                   ![c].i = 1, ![c].inserted_count = 0]
           /\ Travel_Schedule' = IF autocommit THEN Minus(Travel_Schedule, gone)
                                 ELSE Travel_Schedule
    /\ UNCHANGED <<db, genVars, call>>

\* one pass of "for item in schedule": cur.execute(insert_sql, ...)
Insert(c) ==
    /\ save[c].pc = "insert"
    /\ save[c].i <= Len(save[c].schedule)
    /\ LET row == ScheduleRow(save[c].traveler_id, save[c].weather_mode,
                              save[c].schedule[save[c].i])
       IN  /\ save' = [save EXCEPT ![c].inserted = @ (+) SetToBag({row}),
                                   ![c].i = @ + 1,
                                   ![c].inserted_count = @ + 1]
           /\ Travel_Schedule' = IF autocommit THEN Travel_Schedule (+) SetToBag({row})
                                 ELSE Travel_Schedule
    /\ UNCHANGED <<db, genVars, call>>

\* conn.commit(); return inserted_count
Commit(c) ==
    /\ save[c].pc = "insert"
    /\ save[c].i > Len(save[c].schedule)
    /\ save' = [save EXCEPT ![c].pc = "returned", ![c].ret = save[c].inserted_count]
    /\ Travel_Schedule' =
          IF autocommit THEN Travel_Schedule
          ELSE Minus(Travel_Schedule, save[c].deleted) (+) save[c].inserted
    /\ UNCHANGED <<db, genVars, call>>

\* a statement raises (the store fails, a lock wait ends in an error): the
\* finally clause closes the connection without a commit
Fail(c) ==
    /\ \/ save[c].pc = "start" /\ save[c].schedule # <<>>
       \/ save[c].pc = "insert"
    /\ save' = [save EXCEPT ![c].pc = "failed"]
    /\ UNCHANGED <<db, genVars, Travel_Schedule, call>>

NoGeneration ==
    /\ db = Store(Profiles(Profile(T_2bak3il, NULL_TEXT, NULL_TEXT, NULL_TEXT)),
                  {}, {}, {})
    /\ req = Request(1, "not_rainy", NULL_TEXT)
    /\ pc = "done"
    /\ schedule_pref = NULL_TEXT
    /\ nights = 0
    /\ pattern = <<>>
    /\ day = 0
    /\ order = 0
    /\ day_items = <<>>
    /\ full_schedule = <<>>
    /\ used_spot_ids_global = {}
    /\ used_rest_ids_global = {}

\* one connection, its calls one after the other
InitSave ==
    /\ NoGeneration
    /\ Travel_Schedule = EmptyBag
    /\ save = (1 :> IdleCall(MaxCalls))
    /\ call = NoCall

\* two connections, one call each, in any interleaving
InitRace ==
    /\ NoGeneration
    /\ Travel_Schedule = EmptyBag
    /\ save = (1 :> IdleCall(1)) @@ (2 :> IdleCall(1))
    /\ call = NoCall

Calls == \E c \in DOMAIN save : Call(c)
ReturnsZero == \E c \in DOMAIN save : ReturnZero(c)
Deletes == \E c \in DOMAIN save : Delete(c)
Inserts == \E c \in DOMAIN save : Insert(c)
Commits == \E c \in DOMAIN save : Commit(c)
Fails == \E c \in DOMAIN save : Fail(c)

NextSave ==
    \/ Calls
    \/ ReturnsZero
    \/ Deletes
    \/ Inserts
    \/ Commits
    \/ Fails

SpecSave == InitSave /\ [][NextSave]_vars

SpecRace == InitRace /\ [][NextSave]_vars

-----------------------------------------------------------------------------
(* The helper functions called on their own: one call, on a store that      *)
(* holds edges with and without a value, in one and in both directions, and *)
(* edges to ids without a row                                               *)

MaxDayLen == 3          \* length of the day lists handed to _fill_distances_for_day

MissingSpot == MaxSpots + 3
AnySpotIds == SpotIds \cup {MaxSpots + 1, MissingSpot}
AnyRestIds == RestIds \cup {MaxRests + 1, MaxRests + 2}

\* spot_spot_map with a pair stored in both directions (one row without a
\* value) and edges to a spot without a row
TwoWayMap ==
    {[spot_id_1 |-> 1, spot_id_2 |-> 2, distance_km |-> NULL],
     [spot_id_1 |-> 2, spot_id_2 |-> 1, distance_km |-> 5],
     [spot_id_1 |-> 3, spot_id_2 |-> 4, distance_km |-> 2],
     [spot_id_1 |-> 4, spot_id_2 |-> 3, distance_km |-> 2],
     [spot_id_1 |-> 5, spot_id_2 |-> MissingSpot, distance_km |-> NULL],
     [spot_id_1 |-> 4, spot_id_2 |-> MissingSpot, distance_km |-> 6]}

\* spot_restaurant_map with edges to a restaurant and from a spot without a row
DanglingRestMap ==
    {[spot_id |-> 1, restaurant_id |-> MaxRests + 1, distance_km |-> NULL],
     [spot_id |-> 1, restaurant_id |-> MaxRests + 2, distance_km |-> 3],
     [spot_id |-> MissingSpot, restaurant_id |-> 1, distance_km |-> 2],
     [spot_id |-> MissingSpot, restaurant_id |-> 2, distance_km |-> NULL],
     [spot_id |-> 2, restaurant_id |-> 1, distance_km |-> 4],
     [spot_id |-> 2, restaurant_id |-> 3, distance_km |-> 1]}

\* every spot map with the full restaurant map, every restaurant map with the
\* ring of spots
CallStores ==
    {Store(Profiles(Profile(T_2bak3il, NULL_TEXT, NULL_TEXT, NULL_TEXT)),
           SpotIds, spotMap, AllRestMap) : spotMap \in SpotMaps \cup {TwoWayMap}}
    \cup
    {Store(Profiles(Profile(T_2bak3il, NULL_TEXT, NULL_TEXT, NULL_TEXT)),
           SpotIds, RingMap, restMap) : restMap \in RestMaps \cup {DanglingRestMap}}

\* Preferred_Food values: none, empty, the four keys of keyword_map, a marker
\* alone, a marker in another sentence, a cafe preference, an unrelated text
FoodTexts ==
    {NULL_TEXT, <<>>,
     T_hansik \o WijuEumsik, T_ilsik \o WijuEumsik, T_jungsik \o WijuEumsik,
     T_haesanmul \o WijuEumsik,
     T_haesanmul,
     T_haesanmul \o <<SP, "seon", "ho">>,
     T_kape \o WijuEumsik,
     <<"yang", "sik">>}

\* Preferred_Style values: none, nature, culture, an unrelated text
StyleTexts ==
    {NULL_TEXT, T_jayeon_pref, T_munhwa \o <<SP, "seon", "ho">>, <<"syo", "ping">>}

\* the values a call may return, None written as the empty set
Outcomes(rows) == IF rows = {} THEN {{}} ELSE {{r} : r \in rows}

\* the steps a day list may hold at position k
DaySteps(k) ==
    {SpotItem(1, k, SpotRow(i)) : i \in 1..3}
        \cup {EateryItem(1, k, t, [restaurant_id |-> i,
                                   restaurant_rating |-> RestRow(i).rating]) :
                t \in {"restaurant", "cafe"}, i \in 1..2}

RECURSIVE DayListsOfLen(_)
DayListsOfLen(n) ==
    IF n = 0 THEN {<<>>}
    ELSE {Append(items, x) : items \in DayListsOfLen(n - 1), x \in DaySteps(n)}

DayLists == UNION {DayListsOfLen(n) : n \in 1..MaxDayLen}

\* the function fn, called with args, returns result
Returns(fn, args, result) ==
    /\ call' = [fn |-> fn, args |-> args, result |-> result]
    /\ UNCHANGED <<db, genVars, saveVars>>

CallRestaurantForSpot ==
    /\ call = NoCall
    /\ \E spot_id \in SpotIds, preferred_food \in FoodTexts, exclude_ids \in SUBSET RestIds :
           \E result \in Outcomes(get_restaurant_for_spot(spot_id, preferred_food,
                                                          exclude_ids)) :
               Returns("get_restaurant_for_spot",
                       [spot_id |-> spot_id, preferred_food |-> preferred_food,
                        exclude_ids |-> exclude_ids], result)

CallCafeForSpot ==
    /\ call = NoCall
    /\ \E spot_id \in SpotIds, exclude_ids \in SUBSET RestIds :
           \E result \in Outcomes(get_cafe_for_spot(spot_id, exclude_ids)) :
               Returns("get_cafe_for_spot",
                       [spot_id |-> spot_id, exclude_ids |-> exclude_ids], result)

\* the builder passes the weather-filtered pool and, as base, a spot already used
CallChooseNextSpot ==
    /\ call = NoCall
    /\ \E weather_mode \in WeatherModes, used_spot_ids \in SUBSET SpotIds,
          style_pref \in StyleTexts :
           \E base_spot_id \in used_spot_ids \cup {NULL} :
               \E neighbors \in neighbors_fetched(used_spot_ids, weather_mode,
                                                  base_spot_id) :
                   \E result \in Outcomes(choose_next_spot(
                                     get_all_spots_for_weather(weather_mode),
                                     used_spot_ids, style_pref, base_spot_id, neighbors)) :
                       Returns("choose_next_spot",
                               [weather_mode |-> weather_mode,
                                used_spot_ids |-> used_spot_ids,
                                style_pref |-> style_pref,
                                base_spot_id |-> base_spot_id], result)

CallFillDistances ==
    /\ call = NoCall
    /\ \E items \in DayLists :
           \E result \in fill_distances_for_day(items) :
               Returns("fill_distances_for_day", [day_items |-> items], result)

CallSpotToRestaurant ==
    /\ call = NoCall
    /\ \E spot_id \in AnySpotIds, restaurant_id \in AnyRestIds :
           \E result \in calc_distance_spot_to_restaurant(spot_id, restaurant_id) :
               Returns("calc_distance_spot_to_restaurant",
                       [spot_id |-> spot_id, restaurant_id |-> restaurant_id], result)

CallRestaurantToSpot ==
    /\ call = NoCall
    /\ \E restaurant_id \in AnyRestIds, spot_id \in AnySpotIds :
           \E result \in calc_distance_restaurant_to_spot(restaurant_id, spot_id) :
               Returns("calc_distance_restaurant_to_spot",
                       [spot_id |-> spot_id, restaurant_id |-> restaurant_id], result)

CallSpotToSpot ==
    /\ call = NoCall
    /\ \E spot_id_1 \in AnySpotIds, spot_id_2 \in AnySpotIds :
           \E result \in calc_distance_spot_to_spot(spot_id_1, spot_id_2) :
               Returns("calc_distance_spot_to_spot",
                       [spot_id_1 |-> spot_id_1, spot_id_2 |-> spot_id_2], result)

CallRestaurantToRestaurant ==
    /\ call = NoCall
    /\ \E rest_id_1 \in AnyRestIds, rest_id_2 \in AnyRestIds :
           \E result \in calc_distance_restaurant_to_restaurant(rest_id_1, rest_id_2) :
               Returns("calc_distance_restaurant_to_restaurant",
                       [rest_id_1 |-> rest_id_1, rest_id_2 |-> rest_id_2], result)

InitCalls ==
    /\ db \in CallStores
    /\ req = Request(1, "not_rainy", NULL_TEXT)
    /\ pc = "done"
    /\ schedule_pref = NULL_TEXT
    /\ nights = 0
    /\ pattern = <<>>
    /\ day = 0
    /\ order = 0
    /\ day_items = <<>>
    /\ full_schedule = <<>>
    /\ used_spot_ids_global = {}
    /\ used_rest_ids_global = {}
    /\ Travel_Schedule = EmptyBag
    /\ save = <<>>
    /\ call = NoCall

NextCalls ==
    \/ CallRestaurantForSpot
    \/ CallCafeForSpot
    \/ CallChooseNextSpot
    \/ CallFillDistances
    \/ CallSpotToRestaurant
    \/ CallRestaurantToSpot
    \/ CallSpotToSpot
    \/ CallRestaurantToRestaurant

SpecCalls == InitCalls /\ [][NextCalls]_vars

-----------------------------------------------------------------------------
(* Properties of the itinerary builder *)

Returned == pc = "done"
ProfileFound == profile_row # NO_ROW
StepsOfKind(kinds) == {i \in DOMAIN full_schedule : full_schedule[i].type \in kinds}
StepsOfDay(d) == {i \in DOMAIN full_schedule : full_schedule[i].day = d}

\* C1: in a returned itinerary no spot id appears in more than one step of
\* kind spot, across all days
C1_NoSpotTwice ==
    Returned =>
        \A i, j \in StepsOfKind({"spot"}) :
            i # j => full_schedule[i].spot_id # full_schedule[j].spot_id

\* a returned two-day itinerary with four spot steps, one of them after the
\* first day
C1_Witness ==
    /\ Returned
    /\ Cardinality(StepsOfKind({"spot"})) >= 4
    /\ \E i \in StepsOfKind({"spot"}) : full_schedule[i].day >= 2

\* C2: in a returned itinerary no restaurant id appears in more than one step
\* of kind meal or cafe
C2_NoRestaurantTwice ==
    Returned =>
        \A i, j \in StepsOfKind({"restaurant", "cafe"}) :
            i # j => full_schedule[i].restaurant_id # full_schedule[j].restaurant_id

\* a returned itinerary with a meal and a cafe, where a traveler with food
\* keywords got a meal from the unfiltered tier (no keyword in its detail text)
C2_Witness ==
    /\ Returned
    /\ ProfileFound
    /\ StepsOfKind({"cafe"}) # {}
    /\ Cardinality(StepsOfKind({"restaurant"})) >= 2
    /\ food_keywords(profile.Preferred_Food) # {}
    /\ \E i \in StepsOfKind({"restaurant"}) :
         \E r \in get_restaurant_by_id(full_schedule[i].restaurant_id) :
            \A kw \in food_keywords(profile.Preferred_Food) :
                ~IsSubstring(kw, r.biz_type_detail)

DaysWithinCount ==
    /\ nights >= 1
    /\ \A i \in DOMAIN full_schedule : full_schedule[i].day \in 1..nights
    /\ \A i \in DOMAIN day_items : day_items[i].day \in 1..nights

\* C3 as stated: a text containing "3il" gives 2 days, one containing "4il"
\* gives 3 days, one containing neither gives 1 day; the count is at least 1
\* and every step's day is in 1..count
C3_AsStated ==
    (pc # "call" /\ ProfileFound) =>
        /\ IsSubstring(T_3il, duration_text) => nights = 2
        /\ IsSubstring(T_4il, duration_text) => nights = 3
        /\ (~IsSubstring(T_3il, duration_text) /\ ~IsSubstring(T_4il, duration_text))
              => nights = 1
        /\ DaysWithinCount

\* C3 amended: a text containing "4il" gives 3 days; one containing "3il" and
\* not "4il" gives 2 days; one containing neither (or no text) gives 1 day; the
\* count is at least 1 and every step's day is in 1..count
C3_DayCount ==
    (pc # "call" /\ ProfileFound) =>
        /\ IsSubstring(T_4il, duration_text) => nights = 3
        /\ (IsSubstring(T_3il, duration_text) /\ ~IsSubstring(T_4il, duration_text))
              => nights = 2
        /\ (~IsSubstring(T_3il, duration_text) /\ ~IsSubstring(T_4il, duration_text))
              => nights = 1
        /\ DaysWithinCount

\* a returned itinerary for a text containing both "3il" and "4il", with a
\* step on day 3
C3_Witness ==
    /\ Returned
    /\ ProfileFound
    /\ IsSubstring(T_3il, duration_text)
    /\ IsSubstring(T_4il, duration_text)
    /\ StepsOfDay(3) # {}

\* the kinds of the steps recorded follow the pattern p at their order
WalksPattern(p) ==
    /\ pattern = p
    /\ \A i \in DOMAIN full_schedule :
         /\ full_schedule[i].order \in 1..Len(p)
         /\ full_schedule[i].type = p[full_schedule[i].order]

\* C4: the effective pacing preference is the profile's value when present,
\* else the request's; when it is the packed preference (the request schema's
\* "packed", or the profile text for it) every day walks the 7-step pattern,
\* for any other value the 5-step pattern
C4_PatternByPacing ==
    (pc \in {"step", "day_end", "done"} /\ ProfileFound /\ all_spots # {}) =>
        LET effective == effective_pref(profile.Schedule_Preference, req.schedule_pref)
        IN  IF effective \in {T_packed, T_packed_pref}
            THEN WalksPattern(PACKED_PATTERN)
            ELSE WalksPattern(RELAXED_PATTERN)

TravelerUnknown == req.traveler_id \notin DOMAIN db.TRAVELER_PROFILE

\* no row of the spot table is rated from the floor to 5.0 and classified
\* indoor or mixed (or, unless the mode is rainy, outdoor)
NoCandidateSpot ==
    \A s \in db.jeju_tour_spots_info :
        \/ s.rating < MIN_RATING
        \/ s.rating > MAX_RATING
        \/ s.inout_door \notin {SILNAE, SILWOE, BOKHAP}
        \/ req.weather_mode = "rainy" /\ s.inout_door = SILWOE

\* C5: with no profile for the traveler, or with no weather-filtered spot, the
\* call returns the empty itinerary at once: no step of the day loop runs and
\* no id is recorded as used
C5_EmptyItinerary ==
    (pc # "call" /\ (TravelerUnknown \/ NoCandidateSpot)) =>
        /\ Returned
        /\ full_schedule = <<>>
        /\ day_items = <<>>
        /\ used_spot_ids_global = {}
        /\ used_rest_ids_global = {}

\* a rainy call for a known traveler returned, the spot table is not empty and
\* holds outdoor spots only, rated above the floor
C5_Witness ==
    /\ Returned
    /\ ProfileFound
    /\ req.weather_mode = "rainy"
    /\ db.jeju_tour_spots_info # {}
    /\ \A s \in db.jeju_tour_spots_info : s.inout_door = SILWOE /\ s.rating >= MIN_RATING
    /\ full_schedule = <<>>

\* C6: in every day of a returned itinerary with at least 2 steps, the step of
\* lowest order has no distance and every later step has a distance that is
\* defined and not negative
C6_Distances ==
    Returned =>
        \A d \in 1..nights :
            Cardinality(StepsOfDay(d)) >= 2 =>
                \A i \in StepsOfDay(d) :
                    IF \A j \in StepsOfDay(d) :
                          full_schedule[i].order <= full_schedule[j].order
                    THEN full_schedule[i].distance_km = NULL
                    ELSE /\ full_schedule[i].distance_km # NULL
                         /\ full_schedule[i].distance_km >= 0

\* a returned day with a meal-to-cafe leg and a leg resolved from coordinates
\* (no edge row with a value for the pair)
C6_Witness ==
    /\ Returned
    /\ \E i \in DOMAIN full_schedule \ {1} :
         /\ full_schedule[i].type = "cafe"
         /\ full_schedule[i - 1].type = "restaurant"
         /\ full_schedule[i - 1].day = full_schedule[i].day
    /\ \E i \in DOMAIN full_schedule \ {1} :
         /\ full_schedule[i].type = "spot"
         /\ full_schedule[i - 1].type = "spot"
         /\ full_schedule[i - 1].day = full_schedule[i].day
         /\ \A m \in db.spot_spot_map :
              ~(m.spot_id_1 = full_schedule[i].spot_id
                  /\ m.spot_id_2 = full_schedule[i - 1].spot_id)
         /\ full_schedule[i].distance_km > 0

\* the row of the spot table a step of kind spot refers to
SpotOfStep(item) == {s \in db.jeju_tour_spots_info : s.id = item.spot_id}

\* C12: every spot step of a returned itinerary refers to a spot rated from the
\* floor (3.5) to 5.0 and, in mode "rainy", classified indoor or mixed, never
\* outdoor
C12_SpotsPassFilter ==
    Returned =>
        \A i \in StepsOfKind({"spot"}) :
            /\ SpotOfStep(full_schedule[i]) # {}
            /\ \A s \in SpotOfStep(full_schedule[i]) :
                 /\ s.rating >= 35
                 /\ s.rating <= 50
                 /\ req.weather_mode = "rainy" => s.inout_door \in {SILNAE, BOKHAP}

\* a returned rainy itinerary with a spot step whose spot has an edge to an
\* outdoor spot rated above the floor, and an edge to a spot below the floor,
\* and a second spot step in the same day
C12_Witness ==
    /\ Returned
    /\ req.weather_mode = "rainy"
    /\ \E i \in StepsOfKind({"spot"}) :
         \E m \in db.spot_spot_map :
            /\ m.spot_id_1 = full_schedule[i].spot_id
            /\ \E s \in db.jeju_tour_spots_info :
                 s.id = m.spot_id_2 /\ s.inout_door = SILWOE /\ s.rating >= 35
    /\ \E s \in db.jeju_tour_spots_info : s.rating < 35
    /\ \E i, j \in StepsOfKind({"spot"}) :
         i < j /\ full_schedule[i].day = full_schedule[j].day

-----------------------------------------------------------------------------
(* The step loop of a day *)

Running == pc \in {"step", "day_end"}
AtEntry(kinds) == pc = "step" /\ order <= Len(pattern) /\ pattern[order] \in kinds

\* no spot of the candidate pool is unused: the chooser has nothing to return
PoolExhausted ==
    \A s \in db.jeju_tour_spots_info :
        (/\ s.rating >= 35
         /\ s.rating <= 50
         /\ req.weather_mode = "rainy" => s.inout_door \in {SILNAE, BOKHAP})
            => s.id \in used_spot_ids_global

\* two lists hold the same steps, distances aside
SameSteps(a, b) ==
    /\ Len(a) = Len(b)
    /\ \A i \in DOMAIN a : [a[i] EXCEPT !.distance_km = NULL]
                              = [b[i] EXCEPT !.distance_km = NULL]

\* the first step of a list has no distance, the others have one
DistancesFilled(items) ==
    \A i \in DOMAIN items : (items[i].distance_km = NULL) <=> (i = 1)

\* day d is over and a spot entry of the pattern left no step in it
DayOver(d) == Returned \/ (Running /\ d < day)
GapsOfDay(d) ==
    {p \in DOMAIN pattern :
        pattern[p] = "spot" /\ \A i \in StepsOfDay(d) : full_schedule[i].order # p}
CutShort(d) == DayOver(d) /\ GapsOfDay(d) # {}

\* what one step of the builder does when the chooser returns None, and at the
\* end of the day that follows
C14_Step ==
    /\ (AtEntry({"spot"}) /\ PoolExhausted) =>
          /\ pc' = "day_end"
          /\ day' = day
          /\ day_items' = day_items
          /\ full_schedule' = full_schedule
    /\ pc = "day_end" =>
          /\ Len(full_schedule') = Len(full_schedule) + Len(day_items)
          /\ SubSeq(full_schedule', 1, Len(full_schedule)) = full_schedule
          /\ LET kept == SubSeq(full_schedule', Len(full_schedule) + 1,
                                Len(full_schedule'))
             IN  SameSteps(kept, day_items) /\ DistancesFilled(kept)
          /\ IF day < nights
             THEN pc' = "step" /\ day' = day + 1 /\ order' = 1 /\ day_items' = <<>>
             ELSE pc' = "done"

\* C14: when the chooser returns None at a spot step of day d, no later entry
\* of the pattern is executed for day d, the steps recorded for day d and for
\* the earlier days are kept with their distances filled, and the builder goes
\* on to day d+1 up to the day count
C14_DayCutShort == [][C14_Step]_vars

\* a returned two-day itinerary whose first day was cut short after at least
\* two steps, the second day having been processed
C14_Witness ==
    /\ Returned
    /\ nights >= 2
    /\ day = nights
    /\ CutShort(1)
    /\ Cardinality(StepsOfDay(1)) >= 2
    /\ \A i \in StepsOfDay(1) : \A p \in GapsOfDay(1) : full_schedule[i].order < p

\* the biz_type of the restaurants a step kind takes
BizTypeOf(kind) == IF kind = "restaurant" THEN ILBAN ELSE HYUGE

\* no restaurant of the kind's biz_type is linked to the day's last spot and
\* unused: the lookup has no row to return
NoEateryLeft(kind) ==
    \/ \A i \in DOMAIN day_items : day_items[i].type # "spot"
    \/ \A m \in db.spot_restaurant_map :
          m.spot_id = last_spot_of(day_items) =>
              \A r \in db.seogwipo_restaurants :
                  (r.id = m.restaurant_id /\ r.biz_type = BizTypeOf(kind))
                      => r.id \in used_rest_ids_global

C15_Step ==
    (AtEntry({"restaurant", "cafe"}) /\ NoEateryLeft(pattern[order])) =>
        /\ day_items' = day_items
        /\ full_schedule' = full_schedule
        /\ used_spot_ids_global' = used_spot_ids_global
        /\ used_rest_ids_global' = used_rest_ids_global
        /\ pc' = "step"
        /\ day' = day
        /\ order' = order + 1

\* C15: when the lookup of a meal or cafe step has no row to return, no step is
\* recorded for that position, both used-id sets stay as they are and the
\* builder goes on with the next entry of the same day
C15_SkipContinues == [][C15_Step]_vars

\* a day in progress in which a meal or cafe position after a spot was skipped
\* and a later entry of the same day was recorded
C15_Witness ==
    /\ Running
    /\ \E i \in DOMAIN day_items :
         \E p \in 1..(day_items[i].order - 1) :
            /\ pattern[p] \in {"restaurant", "cafe"}
            /\ \A j \in DOMAIN day_items : day_items[j].order # p
            /\ \E j \in DOMAIN day_items :
                 day_items[j].order < p /\ day_items[j].type = "spot"

\* the restaurant row a meal or cafe step refers to
RestaurantOfStep(item) == {r \in db.seogwipo_restaurants : r.id = item.restaurant_id}

\* the spot steps of the same day that precede step i
SpotsBefore(i) ==
    {j \in 1..(i - 1) :
        full_schedule[j].day = full_schedule[i].day /\ full_schedule[j].type = "spot"}

\* C19: in a returned itinerary every meal step refers to a general eatery and
\* every cafe step to a rest eatery, and the restaurant has a
\* spot_restaurant_map edge from the most recent spot step before it in its day
C19_EateryOfLastSpot ==
    Returned =>
        \A i \in StepsOfKind({"restaurant", "cafe"}) :
            /\ RestaurantOfStep(full_schedule[i]) # {}
            /\ \A r \in RestaurantOfStep(full_schedule[i]) :
                 r.biz_type = BizTypeOf(full_schedule[i].type)
            /\ SpotsBefore(i) # {}
            /\ LET j == CHOOSE x \in SpotsBefore(i) : \A y \in SpotsBefore(i) : y <= x
               IN  \E m \in db.spot_restaurant_map :
                      /\ m.spot_id = full_schedule[j].spot_id
                      /\ m.restaurant_id = full_schedule[i].restaurant_id

HasKeyword(item, keywords) ==
    \E r \in RestaurantOfStep(item) : \E kw \in keywords : IsSubstring(kw, r.biz_type_detail)

\* a returned itinerary with a meal and a cafe from the keyword tier, a meal and
\* a cafe from the tier without keywords, and a cafe that follows a meal
C19_Witness ==
    /\ Returned
    /\ ProfileFound
    /\ profile.Preferred_Food = T_haesanmul \o WijuEumsik
    /\ \E i \in StepsOfKind({"restaurant"}) :
         HasKeyword(full_schedule[i], {T_haesanmul, T_hoetjip, T_saengseon})
    /\ \E i \in StepsOfKind({"restaurant"}) :
         ~HasKeyword(full_schedule[i], {T_haesanmul, T_hoetjip, T_saengseon})
    /\ \E i \in StepsOfKind({"cafe"}) : HasKeyword(full_schedule[i], {T_kape, T_keopi})
    /\ \E i \in StepsOfKind({"cafe"}) : ~HasKeyword(full_schedule[i], {T_kape, T_keopi})
    /\ \E i \in StepsOfKind({"cafe"}) : full_schedule[i - 1].type = "restaurant"

\* C20: in a returned itinerary, when a day was cut short (a spot entry of the
\* pattern left no step), every later day has no step
C20_LaterDaysEmpty ==
    Returned =>
        \A d \in 1..nights :
            CutShort(d) => \A e \in (d + 1)..nights : StepsOfDay(e) = {}

\* a returned itinerary of two days or more whose first day was cut short
\* after a meal or cafe step, with every spot of the pool used
C20_Witness ==
    /\ Returned
    /\ nights >= 2
    /\ CutShort(1)
    /\ \E i \in StepsOfDay(1) : full_schedule[i].type \in {"restaurant", "cafe"}
    /\ PoolExhausted
    /\ StepsOfKind({"spot"}) # {}

\* the steps recorded so far for the day in progress and the finished days
Recorded == IF Running THEN full_schedule \o day_items ELSE full_schedule

\* C21: every day with a step has a spot step at order 1 as its first step,
\* and a meal or cafe entry of the pattern is only evaluated when the day has
\* a spot step (the "no spot yet" branch is never taken)
C21_DayStartsWithSpot ==
    /\ (Running \/ Returned) =>
          \A i \in DOMAIN Recorded :
              (i = 1 \/ Recorded[i - 1].day # Recorded[i].day)
                  => Recorded[i].type = "spot" /\ Recorded[i].order = 1
    /\ AtEntry({"restaurant", "cafe"}) =>
          \E i \in DOMAIN day_items : day_items[i].type = "spot"

\* the cafe entry of a second day is evaluated after a first spot and a
\* skipped meal, the first day having steps
C21_Witness ==
    /\ AtEntry({"cafe"})
    /\ day >= 2
    /\ Len(day_items) = 1
    /\ day_items[1].type = "spot"
    /\ StepsOfDay(1) # {}

\* C22: every step's order is a position of the pattern and its kind is the
\* pattern's entry there; within a day the orders increase strictly, so a day
\* has at most as many steps as the pattern; the days of the returned list
\* never decrease
C22_OrderIsPatternPosition ==
    (Running \/ Returned) =>
        /\ \A i \in DOMAIN Recorded :
              /\ Recorded[i].order \in 1..Len(pattern)
              /\ Recorded[i].type = pattern[Recorded[i].order]
        /\ \A i, j \in DOMAIN Recorded :
              i < j => \/ Recorded[i].day < Recorded[j].day
                       \/ /\ Recorded[i].day = Recorded[j].day
                          /\ Recorded[i].order < Recorded[j].order
        /\ \A d \in 1..nights :
              Cardinality({i \in DOMAIN Recorded : Recorded[i].day = d}) <= Len(pattern)

\* a returned itinerary with a first day that has a step at each of the 7
\* positions and a second day with a gap where a meal was skipped
C22_Witness ==
    /\ Returned
    /\ Len(pattern) = 7
    /\ Cardinality(StepsOfDay(1)) = 7
    /\ \E i, j \in StepsOfDay(2) :
         full_schedule[i].order = 1 /\ full_schedule[j].order = 3
    /\ \A i \in StepsOfDay(2) : full_schedule[i].order # 2

-----------------------------------------------------------------------------
(* Properties of the helper functions *)

IsMealCall == call.fn = "get_restaurant_for_spot"

\* the general eateries linked to the call's spot and not excluded
LinkedEateries ==
    {r \in db.seogwipo_restaurants :
        /\ r.biz_type = ILBAN
        /\ r.id \notin call.args.exclude_ids
        /\ \E m \in db.spot_restaurant_map :
              m.spot_id = call.args.spot_id /\ m.restaurant_id = r.id}

WithKeyword(rows, keywords) ==
    {r \in rows : \E kw \in keywords : IsSubstring(kw, r.biz_type_detail)}

\* the call returned one of these restaurants
ReturnsOneOf(rows) ==
    /\ call.result # {}
    /\ \A x \in call.result : \E r \in rows : r.id = x.restaurant_id

\* the keyword table read by containment of a marker, with a cafe row
MarkerTable ==
    {[marker |-> T_hansik, keywords |-> {T_hansik}],
     [marker |-> T_ilsik, keywords |-> {T_ilsik}],
     [marker |-> T_jungsik, keywords |-> {T_jungsik}],
     [marker |-> T_haesanmul, keywords |-> {T_haesanmul, T_hoetjip, T_saengseon}],
     [marker |-> T_kape, keywords |-> {T_kape, T_keopi}]}

\* the keyword table read by the whole preference text
WholeTextTable ==
    {[marker |-> T_hansik \o WijuEumsik, keywords |-> {T_hansik}],
     [marker |-> T_ilsik \o WijuEumsik, keywords |-> {T_ilsik}],
     [marker |-> T_jungsik \o WijuEumsik, keywords |-> {T_jungsik}],
     [marker |-> T_haesanmul \o WijuEumsik,
      keywords |-> {T_haesanmul, T_hoetjip, T_saengseon}]}

\* the rows of a table the call's preference text selects
RowsByMarker ==
    {row \in MarkerTable : /\ Truthy(call.args.preferred_food)
                           /\ IsSubstring(row.marker, call.args.preferred_food)}
RowsByWholeText ==
    {row \in WholeTextTable : call.args.preferred_food = row.marker}

\* a restaurant with a keyword of each selected row when there is one; else a
\* linked restaurant when there is one; else None
HonoursRows(rows) ==
    /\ \A row \in rows :
          WithKeyword(LinkedEateries, row.keywords) # {}
              => ReturnsOneOf(WithKeyword(LinkedEateries, row.keywords))
    /\ (\A row \in rows : WithKeyword(LinkedEateries, row.keywords) = {})
          => IF LinkedEateries = {} THEN call.result = {}
             ELSE ReturnsOneOf(LinkedEateries)

\* C11 as stated: for every row of the table (hansik, ilsik, jungsik,
\* haesanmul, kape) whose marker the preference text contains, a linked
\* general eatery with a keyword of the row is returned when there is one; the
\* set without keywords is used only otherwise
C11_AsStated == IsMealCall => HonoursRows(RowsByMarker)

\* C11 amended: the rows are hansik, ilsik, jungsik and haesanmul, and a row
\* is selected when the preference text is the row's whole key ("<marker> wiju
\* eumsik"); any other text, a text that only contains a marker included,
\* selects no row
C11_KeywordTable == IsMealCall => HonoursRows(RowsByWholeText)

\* a call with the seafood key that returned a raw-fish house although a
\* linked, better rated general eatery without a keyword was available
C11_Witness ==
    /\ IsMealCall
    /\ call.args.preferred_food = T_haesanmul \o WijuEumsik
    /\ ReturnsOneOf(WithKeyword(LinkedEateries, {T_hoetjip}))
    /\ \E r \in LinkedEateries :
         /\ WithKeyword({r}, {T_haesanmul, T_hoetjip, T_saengseon}) = {}
         /\ \A x \in call.result : r.rating > x.restaurant_rating

IsChooserCall == call.fn = "choose_next_spot"

\* the spots that pass the weather and rating filter of the call's mode and
\* are not used
UnusedPool ==
    {s \in db.jeju_tour_spots_info :
        /\ s.rating >= 35
        /\ s.rating <= 50
        /\ s.inout_door \in {SILNAE, SILWOE, BOKHAP}
        /\ call.args.weather_mode = "rainy" => s.inout_door # SILWOE
        /\ s.id \notin call.args.used_spot_ids}

\* those of them with an edge from the base spot (fewer than the 50 the
\* neighbor query is capped at)
UnusedNeighbors ==
    IF call.args.base_spot_id = NULL THEN {}
    ELSE {s \in UnusedPool :
            \E m \in db.spot_spot_map :
                m.spot_id_1 = call.args.base_spot_id /\ m.spot_id_2 = s.id}

Styled(spots) == {s \in spots : match_style(call.args.style_pref, s)}

FirstTier ==
    IF Styled(UnusedNeighbors) # {} THEN Styled(UnusedNeighbors)
    ELSE IF UnusedNeighbors # {} THEN UnusedNeighbors
    ELSE IF Styled(UnusedPool) # {} THEN Styled(UnusedPool)
    ELSE UnusedPool

IsFillCall == call.fn = "fill_distances_for_day"

\* the resolver for a leg, by the kinds of its two steps
Resolver(prev, cur) ==
    CASE prev.type = "spot" /\ cur.type \in {"restaurant", "cafe"} ->
            calc_distance_spot_to_restaurant(prev.spot_id, cur.restaurant_id)
      [] prev.type \in {"restaurant", "cafe"} /\ cur.type = "spot" ->
            calc_distance_restaurant_to_spot(prev.restaurant_id, cur.spot_id)
      [] prev.type = "spot" /\ cur.type = "spot" ->
            calc_distance_spot_to_spot(prev.spot_id, cur.spot_id)
      [] prev.type \in {"restaurant", "cafe"} /\ cur.type \in {"restaurant", "cafe"} ->
            calc_distance_restaurant_to_restaurant(prev.restaurant_id,
                                                   cur.restaurant_id)

\* C16: after _fill_distances_for_day the list holds the same steps, the first
\* without a distance and every other step with the distance its resolver
\* gives for the step just before it and itself, the resolver being selected
\* by the two kinds (meal and cafe alike), for each of the nine combinations
C16_LegByKinds ==
    IsFillCall =>
        /\ SameSteps(call.result, call.args.day_items)
        /\ call.result[1].distance_km = NULL
        /\ \A n \in 2..Len(call.result) :
              call.result[n].distance_km \in Resolver(call.result[n - 1], call.result[n])

\* a day of a meal, a cafe and a spot: the cafe has the meal-to-cafe
\* distance and the spot the cafe-to-spot distance, which is not the
\* meal-to-spot distance
C16_Witness ==
    /\ IsFillCall
    /\ Len(call.result) = 3
    /\ call.result[1].type = "restaurant"
    /\ call.result[2].type = "cafe"
    /\ call.result[3].type = "spot"
    /\ call.result[2].distance_km \in Resolver(call.result[1], call.result[2])
    /\ call.result[3].distance_km \notin Resolver(call.result[1], call.result[3])

IsDistanceCall ==
    call.fn \in {"calc_distance_spot_to_restaurant", "calc_distance_restaurant_to_spot",
                 "calc_distance_spot_to_spot", "calc_distance_restaurant_to_restaurant"}
IsSpotRestaurantCall ==
    call.fn \in {"calc_distance_spot_to_restaurant", "calc_distance_restaurant_to_spot"}
IsSpotSpotCall == call.fn = "calc_distance_spot_to_spot"
IsRestRestCall == call.fn = "calc_distance_restaurant_to_restaurant"

\* the distances of the edge rows stored for the call's pair: NULL for a row
\* without a value
PairEdgeValues ==
    IF IsSpotRestaurantCall
    THEN {m.distance_km : m \in {x \in db.spot_restaurant_map :
              /\ x.spot_id = call.args.spot_id
              /\ x.restaurant_id = call.args.restaurant_id}}
    ELSE IF IsSpotSpotCall
    THEN {m.distance_km : m \in {x \in db.spot_spot_map :
              \/ x.spot_id_1 = call.args.spot_id_1 /\ x.spot_id_2 = call.args.spot_id_2
              \/ x.spot_id_1 = call.args.spot_id_2 /\ x.spot_id_2 = call.args.spot_id_1}}
    ELSE {}

\* the coordinates of the two entities of the call's pair, when they have a row
PairEnds ==
    LET SpotAt(id) == {<<s.lat, s.lon>> : s \in {x \in db.jeju_tour_spots_info : x.id = id}}
        RestAt(id) == {<<r.lat, r.lon>> : r \in {x \in db.seogwipo_restaurants : x.id = id}}
    IN  IF IsSpotRestaurantCall
        THEN <<SpotAt(call.args.spot_id), RestAt(call.args.restaurant_id)>>
        ELSE IF IsSpotSpotCall
        THEN <<SpotAt(call.args.spot_id_1), SpotAt(call.args.spot_id_2)>>
        ELSE <<RestAt(call.args.rest_id_1), RestAt(call.args.rest_id_2)>>

EntityMissing == PairEnds[1] = {} \/ PairEnds[2] = {}

\* the great-circle distance of the pair, None when an entity has no row
GeoDistance ==
    IF EntityMissing THEN NULL
    ELSE LET a == CHOOSE x \in PairEnds[1] : TRUE
             b == CHOOSE x \in PairEnds[2] : TRUE
         IN  haversine(a[1], a[2], b[1], b[2])

\* twice the same spot, or twice the same restaurant
SameEntity ==
    \/ IsSpotSpotCall /\ call.args.spot_id_1 = call.args.spot_id_2
    \/ IsRestRestCall /\ call.args.rest_id_1 = call.args.rest_id_2

\* C17 as stated: the result is an edge distance of the pair whenever an edge
\* with a value exists for the pair; only when none exists it is the
\* great-circle distance of the coordinates, and None when an entity has no row
C17_AsStated ==
    IsDistanceCall =>
        IF PairEdgeValues \ {NULL} # {}
        THEN call.result \in PairEdgeValues \ {NULL}
        ELSE call.result = GeoDistance

\* C17 amended: for two different entities, the result is an edge distance of
\* the pair when every edge row of the pair holds a value; it is the
\* great-circle distance (None when an entity has no row) when no edge row
\* holds a value; it is either when only some rows hold a value.  For twice
\* the same spot or twice the same restaurant it is 0
C17_EdgeThenGeo ==
    IsDistanceCall =>
        IF SameEntity THEN call.result = 0
        ELSE IF PairEdgeValues # {} /\ NULL \notin PairEdgeValues
        THEN call.result \in PairEdgeValues
        ELSE IF PairEdgeValues \ {NULL} = {}
        THEN call.result = GeoDistance
        ELSE call.result \in (PairEdgeValues \ {NULL}) \cup {GeoDistance}

\* a spot-to-spot call answered from the edge stored in the other direction,
\* with a value that is not the great-circle distance
C17_Witness ==
    /\ IsSpotSpotCall
    /\ ~SameEntity
    /\ \A m \in db.spot_spot_map :
         ~(m.spot_id_1 = call.args.spot_id_1 /\ m.spot_id_2 = call.args.spot_id_2)
    /\ PairEdgeValues # {}
    /\ call.result \in PairEdgeValues
    /\ call.result # GeoDistance

\* an edge of the call's pair refers to an id without a row
DanglingEdge ==
    /\ IsSpotRestaurantCall \/ IsSpotSpotCall
    /\ PairEdgeValues # {}
    /\ EntityMissing

\* the resolvers return for every pair of ids
ResolversReturn ==
    /\ \A a \in AnySpotIds : \A b \in AnyRestIds :
          /\ calc_distance_spot_to_restaurant(a, b) # {}
          /\ calc_distance_restaurant_to_spot(b, a) # {}
    /\ \A a, b \in AnySpotIds : calc_distance_spot_to_spot(a, b) # {}

\* C18 as stated: when an edge of the pair refers to an id without a row, the
\* result is None
C18_AsStated == DanglingEdge => call.result = NULL

\* C18 amended: when an edge of the pair refers to an id without a row, the
\* result is the distance the edge row holds, None only when the row holds no
\* value; the resolvers return (they do not raise) for every pair
C18_DanglingEdge ==
    /\ (DanglingEdge /\ ~SameEntity) => call.result \in PairEdgeValues
    /\ ResolversReturn

\* a spot-to-spot call for an edge without a value to a spot without a row
C18_Witness ==
    /\ IsSpotSpotCall
    /\ DanglingEdge
    /\ PairEdgeValues = {NULL}
    /\ call.result = NULL

-----------------------------------------------------------------------------
(* Properties of the write-back *)

NewRows(c) == RowsOf(save[c].traveler_id, save[c].weather_mode, save[c].schedule)
Visible(c) == PairRows(save[c].traveler_id, save[c].weather_mode)

\* C7: when a call has returned, the rows stored for its (traveler, weather)
\* pair are exactly one row per step of its itinerary, the empty itinerary
\* included, and the value returned is the number of steps
C7_ReplacesAllRows ==
    \A c \in DOMAIN save :
        save[c].pc = "returned" =>
            /\ Visible(c) = NewRows(c)
            /\ save[c].ret = Len(save[c].schedule)

SameCallAsPrevious(c) ==
    /\ save[c].prev.valid
    /\ save[c].prev.traveler_id = save[c].traveler_id
    /\ save[c].prev.weather_mode = save[c].weather_mode
    /\ save[c].prev.schedule = save[c].schedule

\* C8: when a call has returned that repeats the call made just before it
\* (same traveler, weather and itinerary), the pair has as many rows as it had
\* after that first call
C8_SameRowCount ==
    \A c \in DOMAIN save :
        (save[c].pc = "returned" /\ SameCallAsPrevious(c)) =>
            BagCardinality(Visible(c)) = save[c].prev.count

\* the second of two equal calls with an itinerary of two steps has returned,
\* having deleted the rows of the first
C8_Witness ==
    \E c \in DOMAIN save :
        /\ save[c].pc = "returned"
        /\ SameCallAsPrevious(c)
        /\ Len(save[c].schedule) >= 2
        /\ save[c].deleted # EmptyBag
        /\ save[c].prev.count = Len(save[c].schedule)

\* C9: from the start of a call on, whether it is running, has returned or has
\* failed, a reader of its pair sees either all the rows the pair had when the
\* call started or all the rows of the new itinerary, never a part of either
C9_ReaderSeesOldOrNew ==
    \A c \in DOMAIN save :
        save[c].pc # "idle" =>
            \/ Visible(c) = save[c].before
            \/ Visible(c) = NewRows(c)

\* a call failed part-way through its inserts, after deleting the old rows of
\* its pair
C9_Witness ==
    \E c \in DOMAIN save :
        /\ save[c].pc = "failed"
        /\ save[c].deleted # EmptyBag
        /\ save[c].inserted_count >= 1
        /\ save[c].inserted_count < Len(save[c].schedule)
        /\ save[c].before # NewRows(c)

\* C10: when two calls for the same pair have both returned, the rows of the
\* pair are the rows of one of the two itineraries
C10_Serialized ==
    \A c, o \in DOMAIN save :
        (/\ c # o
         /\ save[c].pc = "returned"
         /\ save[o].pc = "returned"
         /\ save[c].traveler_id = save[o].traveler_id
         /\ save[c].weather_mode = save[o].weather_mode)
            => (Visible(c) = NewRows(c) \/ Visible(c) = NewRows(o))

\* a step changes the rows of a pair only when a call for that pair is running
C23_Step ==
    \A t \in SaveTravelers, w \in WeatherModes :
        PairRows(t, w)' # PairRows(t, w) =>
            \E c \in DOMAIN save :
                /\ save[c].pc \in {"start", "insert"}
                /\ save[c].traveler_id = t
                /\ save[c].weather_mode = w

\* C23: a call leaves every stored row of another (traveler, weather) pair as
\* it is: the rows of other travelers, and the rows of the same traveler under
\* the other weather mode
C23_OtherPairsKept == [][C23_Step]_vars

\* a call returned after deleting rows of its pair and storing new ones, while
\* rows of the same traveler under the other weather mode are stored
C23_Witness ==
    \E c \in DOMAIN save :
        /\ save[c].pc = "returned"
        /\ save[c].schedule # <<>>
        /\ save[c].deleted # EmptyBag
        /\ \E r \in DOMAIN Travel_Schedule :
             r.Traveler_id = save[c].traveler_id /\ r.weather # save[c].weather_mode

=============================================================================
